---- MODULE Spec2Model ----
(***************************************************************************)
(* A model of src/bin/coverage.rs: the `coverage` binary of rust-rosetta.  *)
(*                                                                         *)
(* Texts are sequences of characters (one-character strings, "\n" being    *)
(* the newline).  The terminal is a record holding the current foreground  *)
(* colour, the bold attribute and everything written so far; every         *)
(* operation on it (attr, fg, reset, write, flush) may fail, as io::Result *)
(* says.  The program is the state machine                                 *)
(*    start --ParseArgs--> tasks --(one step per task)--> tasks --Finish-->*)
(*    done, with "panicked" reached from any unwrap() of an Err.           *)
(***************************************************************************)
EXTENDS Integers, Sequences, FiniteSets

VARIABLES
    filterArg,   \* value of --filter on the command line, None when omitted
    diffFlag,    \* --diff present
    jsonFile,    \* --json <path> present
    filter,      \* the Filter in effect ("unset" before the arguments are read)
    tasks,       \* what the task iterator yields: Ok(Task) or Err, in order
    idx,         \* position of the next element the iterator yields
    term,        \* the terminal t: [fg, bold, out]
    collected,   \* the Vec of json values collected so far
    file,        \* the export destination: [state, content]
    pc,          \* position of the program
    cause,       \* why the program panicked ("none" while it has not)
    ioFailed     \* a terminal operation has returned Err

vars == <<filterArg, diffFlag, jsonFile, filter, tasks, idx, term, collected,
          file, pc, cause, ioFailed>>

-----------------------------------------------------------------------------
(* Bounds of the model. *)

\* longest text (in characters) given to print_diff in DiffSpec
MaxStrLen == 3

\* most elements the task iterator yields in Spec
MaxTasks == 2

-----------------------------------------------------------------------------
(* Values. *)

NL == "\n"

Alphabet == {"a", "b", NL}

None == [some |-> FALSE, val |-> <<>>]

Some(v) == [some |-> TRUE, val |-> v]

RECURSIVE StringsUpTo(_)
StringsUpTo(n) ==
    IF n = 0 THEN {<<>>}
    ELSE LET shorter == StringsUpTo(n - 1)
         IN  shorter \cup {Append(s, c) : s \in {t \in shorter : Len(t) = n - 1},
                                          c \in Alphabet}

\* the texts print_diff is applied to in DiffSpec
Texts == StringsUpTo(MaxStrLen)

\* the local and remote implementations the tasks of Spec may hold
LocalCodes == {None, Some(<<>>), Some(<<"a", NL, "b">>)}

RemoteCodes == {None, Some(<<"b">>), Some(<<"a", NL, "b">>)}

\* task titles are unique within a run: the i-th task is titled "t" i times
TitleOf(i) == [k \in 1..i |-> "t"]

UrlOf(i) == [serialization |-> [k \in 1..i |-> "u"]]

PathOf(i) == [k \in 1..i |-> "p"]

\* meta::Task as this file reads it, wrapped in the Result the iterator yields;
\* a task has a local path exactly when it has a local implementation
TaskResults(i) ==
    {[err |-> TRUE, title |-> <<>>, url |-> UrlOf(i), local_code |-> None,
      remote_code |-> None, local_path |-> None]}
    \cup
    {[err |-> FALSE, title |-> TitleOf(i), url |-> UrlOf(i), local_code |-> l,
      remote_code |-> r,
      local_path |-> IF l.some THEN Some(PathOf(i)) ELSE None]
        : l \in LocalCodes, r \in RemoteCodes}

TaskSeqs ==
    UNION {{s \in [1..n -> UNION {TaskResults(i) : i \in 1..n}] :
                \A i \in 1..n : s[i] \in TaskResults(i)} : n \in 0..MaxTasks}

-----------------------------------------------------------------------------
(* Strings: str::split and [&str]::join with "\n". *)

HasNL(s) == \E i \in 1..Len(s) : s[i] = NL

FirstNL(s) == CHOOSE i \in 1..Len(s) : s[i] = NL /\ \A j \in 1..(i - 1) : s[j] # NL

RECURSIVE Split(_)
Split(s) ==
    IF ~HasNL(s) THEN <<s>>
    ELSE <<SubSeq(s, 1, FirstNL(s) - 1)>> \o Split(SubSeq(s, FirstNL(s) + 1, Len(s)))

RECURSIVE Join(_)
Join(ls) ==
    IF ls = <<>> THEN <<>>
    ELSE IF Len(ls) = 1 THEN ls[1]
    ELSE ls[1] \o <<NL>> \o Join(Tail(ls))

-----------------------------------------------------------------------------
(* difference::Changeset::new(s1, s2, "\n"), the line diff print_diff calls.*)
(* The crate computes a longest common subsequence of the two line lists   *)
(* and merges the three lists into Same / Rem / Add segments, the lines of *)
(* a segment joined by "\n".  Which longest common subsequence it picks is *)
(* left open here: every one is a possible outcome.                        *)

RECURSIVE SubSeqsOf(_)
SubSeqsOf(s) ==
    IF s = <<>> THEN {<<>>}
    ELSE LET rest == SubSeqsOf(Tail(s))
         IN  rest \cup {<<Head(s)>> \o t : t \in rest}

\* lcs(orig, edit, split): the common lines, joined into one string
lcs(orig, edit) ==
    LET common == SubSeqsOf(Split(orig)) \cap SubSeqsOf(Split(edit))
        longest == {c \in common : \A d \in common : Len(d) <= Len(c)}
    IN  {Join(c) : c \in longest}

\* Peekable::peek() on two iterators compared with ==
PeekEq(x, y) ==
    \/ x = <<>> /\ y = <<>>
    \/ x # <<>> /\ y # <<>> /\ Head(x) = Head(y)

RECURSIVE SameLen(_, _, _)
SameLen(l, r, c) ==
    IF l # <<>> /\ PeekEq(l, c) /\ PeekEq(r, c)
    THEN 1 + SameLen(Tail(l), Tail(r), Tail(c))
    ELSE 0

RECURSIVE DiffLen(_, _)
DiffLen(l, c) ==
    IF l # <<>> /\ ~PeekEq(l, c) THEN 1 + DiffLen(Tail(l), c) ELSE 0

Drop(s, n) == SubSeq(s, n + 1, Len(s))

Take(s, n) == SubSeq(s, 1, n)

Difference(tag, lines) == [tag |-> tag, text |-> Join(lines)]

RECURSIVE MergeLoop(_, _, _)
MergeLoop(l, r, c) ==
    IF l = <<>> /\ r = <<>> THEN <<>>
    ELSE LET ns == SameLen(l, r, c)
             l1 == Drop(l, ns)
             r1 == Drop(r, ns)
             c1 == Drop(c, ns)
             nr == DiffLen(l1, c1)
             na == DiffLen(r1, c1)
             ret == (IF ns > 0 THEN <<Difference("Same", Take(l, ns))>> ELSE <<>>)
                    \o (IF nr > 0 THEN <<Difference("Rem", Take(l1, nr))>> ELSE <<>>)
                    \o (IF na > 0 THEN <<Difference("Add", Take(r1, na))>> ELSE <<>>)
         IN  IF ns + nr + na = 0 THEN ret
             ELSE ret \o MergeLoop(Drop(l1, nr), Drop(r1, na), c1)

\* merge(orig, edit, common, split): empty strings become [], not [""]
merge(orig, edit, common) ==
    MergeLoop(IF orig = <<>> THEN <<>> ELSE Split(orig),
              IF edit = <<>> THEN <<>> ELSE Split(edit),
              IF common = <<>> THEN <<>> ELSE Split(common))

\* the diffs Changeset::new(s1, s2, "\n") may hold
Changesets(s1, s2) == {merge(s1, s2, common) : common \in lcs(s1, s2)}

-----------------------------------------------------------------------------
(* The terminal.  An operation is [op, color, text, tag]; tag names the    *)
(* place in the program that issued it, and is kept with what is written,  *)
(* as is the number of the task being processed.  flushed holds the tasks  *)
(* during which the terminal was flushed.                                  *)

TermOp(op, color, text, tag) == [op |-> op, color |-> color, text |-> text, tag |-> tag]

Attr(tag) == TermOp("attr", "bold", <<>>, tag)

Fg(color, tag) == TermOp("fg", color, <<>>, tag)

Reset(tag) == TermOp("reset", "none", <<>>, tag)

Write(text, tag) == TermOp("write", "none", text, tag)

Flush(tag) == TermOp("flush", "none", <<>>, tag)

InitTerm == [fg |-> "none", bold |-> FALSE, out |-> <<>>, flushed |-> {}]

\* one successful operation on terminal t while task number n is processed
ApplyOp(t, o, n) ==
    CASE o.op = "attr"  -> [t EXCEPT !.bold = TRUE]
      [] o.op = "fg"    -> [t EXCEPT !.fg = o.color]
      [] o.op = "reset" -> [t EXCEPT !.fg = "none", !.bold = FALSE]
      [] o.op = "write" -> [t EXCEPT !.out = Append(@, [text |-> o.text, fg |-> t.fg,
                                                        bold |-> t.bold, tag |-> o.tag,
                                                        task |-> n])]
      [] o.op = "flush" -> [t EXCEPT !.flushed = @ \cup {n}]

RECURSIVE RunOps(_, _, _)
RunOps(t, ops, n) ==
    IF ops = <<>> THEN t ELSE RunOps(ApplyOp(t, Head(ops), n), Tail(ops), n)

-----------------------------------------------------------------------------
(* print_diff, write_status, print_task: the operations each issues, in    *)
(* order.  A `?` ends the function at the first operation that fails, so a *)
(* run of the function is a prefix of this list.                           *)

AddLine(line) == <<Write(<<"+">> \o line \o <<NL>>, "Add")>>

RECURSIVE AddLines(_)
AddLines(lines) ==
    IF lines = <<>> THEN <<>> ELSE AddLine(Head(lines)) \o AddLines(Tail(lines))

RemLine(line) == <<Write(<<"-">> \o line \o <<NL>>, "Rem")>>

RECURSIVE RemLines(_)
RemLines(lines) ==
    IF lines = <<>> THEN <<>> ELSE RemLine(Head(lines)) \o RemLines(Tail(lines))

\* SameOps without the reset: the colour of the segment before stays on
SameOpsNoReset(x) == <<Write(<<" ">> \o x \o <<NL>>, "Same")>>

SameOps(x) == <<Reset("Same"), Write(<<" ">> \o x \o <<NL>>, "Same")>>

AddOps(x) == <<Fg("green", "Add")>> \o AddLines(Split(x))

RemOps(x) == <<Fg("red", "Rem")>> \o RemLines(Split(x))

ChangeOps(change) ==
    CASE change.tag = "Same" -> SameOps(change.text)
      [] change.tag = "Add"  -> AddOps(change.text)
      [] change.tag = "Rem"  -> RemOps(change.text)

RECURSIVE ChangesOps(_)
ChangesOps(diffs) ==
    IF diffs = <<>> THEN <<>> ELSE ChangeOps(Head(diffs)) \o ChangesOps(Tail(diffs))

print_diff(diffs) == ChangesOps(diffs) \o <<Reset("diff_end"), Flush("diff_end")>>

\* write_status with the two branches of the if exchanged
write_status_swapped(boolean) ==
    <<Attr("status")>>
    \o (IF boolean THEN <<Fg("red", "status"), Write(<<"CROSS">>, "status")>>
                   ELSE <<Fg("green", "status"), Write(<<"CHECK">>, "status")>>)
    \o <<Reset("status")>>

write_status(boolean) ==
    <<Attr("status")>>
    \o (IF boolean THEN <<Fg("green", "status"), Write(<<"CHECK">>, "status")>>
                   ELSE <<Fg("red", "status"), Write(<<"CROSS">>, "status")>>)
    \o <<Reset("status")>>

is_some(o) == o.some

\* print_task up to the point where it decides whether to print the diff
PrintTaskHead(task) ==
    <<Attr("title"), Write(task.title \o <<NL>>, "title"), Reset("title")>>
    \o <<Write(<<"Local:">>, "local")>> \o write_status(is_some(task.local_code))
    \o <<Write(<<"Remote:">>, "remote")>> \o write_status(is_some(task.remote_code))
    \o <<Write(<<NL>>, "newline")>>

\* whether print_task calls print_diff
WantsDiff(task, diff) == is_some(task.local_code) /\ is_some(task.remote_code) /\ diff

\* DiffArgs with the two texts exchanged: print_diff(t, local_code, remote_code)
DiffArgsSwapped(task) == <<task.local_code.val, task.remote_code.val>>

\* the texts print_task hands to print_diff, as <<s1, s2>>
DiffArgs(task) == <<task.remote_code.val, task.local_code.val>>

\* the operation lists print_task may issue (one per possible changeset)
print_task(task, diff) ==
    IF WantsDiff(task, diff)
    THEN {PrintTaskHead(task) \o print_diff(d) :
              d \in Changesets(DiffArgs(task)[1], DiffArgs(task)[2])}
    ELSE {PrintTaskHead(task)}

-----------------------------------------------------------------------------
(* The command line (clap) and the Filter enum (arg_enum!).                *)

ArgNone == [some |-> FALSE, val |-> ""]

ArgSome(v) == [some |-> TRUE, val |-> v]

\* possible_values of --filter: clap rejects every other value
PossibleValues == {"all", "local", "remote", "unimplemented"}

\* the variants of enum Filter, by name
Variants == {"All", "LocalOnly", "RemoteOnly", "Unimplemented"}

\* impl Default for Filter
FilterDefault == "All"

\* ASCII lower case of the strings that occur (command-line values are lower case)
AsciiLower(s) ==
    CASE s = "All"           -> "all"
      [] s = "LocalOnly"     -> "localonly"
      [] s = "RemoteOnly"    -> "remoteonly"
      [] s = "Unimplemented" -> "unimplemented"
      [] OTHER               -> s

\* the FromStr arg_enum! derives: the variant whose name equals s, ignoring case
FromStr(s) ==
    LET hit == {v \in Variants : AsciiLower(v) = AsciiLower(s)}
    IN  IF hit = {} THEN ArgNone ELSE ArgSome(CHOOSE v \in hit : TRUE)

\* value_t!(matches.value_of("filter"), Filter).ok().unwrap_or_default()
FilterFromArgs(arg) ==
    IF ~arg.some THEN FilterDefault
    ELSE IF FromStr(arg.val).some THEN FromStr(arg.val).val
    ELSE FilterDefault

-----------------------------------------------------------------------------
(* meta::Task predicates, and the filter match of main.                    *)

is_local_only(task) == task.local_code.some /\ ~task.remote_code.some

is_remote_only(task) == ~task.local_code.some /\ task.remote_code.some

is_unimplemented(task) == ~task.local_code.some /\ ~task.remote_code.some

\* FilterExcludes with LocalOnly and RemoteOnly testing one field only
FilterExcludesOneField(f, task) ==
    CASE f = "LocalOnly" /\ ~task.local_code.some        -> TRUE
      [] f = "RemoteOnly" /\ ~task.remote_code.some      -> TRUE
      [] f = "Unimplemented" /\ ~is_unimplemented(task) -> TRUE
      [] OTHER                                          -> FALSE

\* the match on filter: TRUE when the closure returns None before printing
FilterExcludes(f, task) ==
    CASE f = "LocalOnly" /\ ~is_local_only(task)        -> TRUE
      [] f = "RemoteOnly" /\ ~is_remote_only(task)      -> TRUE
      [] f = "Unimplemented" /\ ~is_unimplemented(task) -> TRUE
      [] OTHER                                          -> FALSE

-----------------------------------------------------------------------------
(* json!: the value built for a task.                                      *)

JNull == [kind |-> "null", value |-> <<>>]

JString(s) == [kind |-> "string", value |-> s]

\* Serialize for Option<T>: None is null, Some(v) is v
ToJson(o) == IF o.some THEN JString(o.val) ELSE JNull

\* Url::to_string
UrlToString(u) == u.serialization

\* ExportRecord with an absent field written as an empty string
ExportRecordNoNull(task) ==
    [title       |-> JString(task.title),
     url         |-> JString(UrlToString(task.url)),
     local_code  |-> JString(task.local_code.val),
     remote_code |-> JString(task.remote_code.val),
     path        |-> JString(task.local_path.val)]

ExportRecord(task) ==
    [title       |-> JString(task.title),
     url         |-> JString(UrlToString(task.url)),
     local_code  |-> ToJson(task.local_code),
     remote_code |-> ToJson(task.remote_code),
     path        |-> ToJson(task.local_path)]

\* what the closure yields for a printed task
Collect(acc, task, json) == IF json.some THEN Append(acc, ExportRecord(task)) ELSE acc

NoFile == [state |-> "absent", content |-> <<>>]

-----------------------------------------------------------------------------
(* main.                                                                   *)

Init ==
    /\ filterArg \in {ArgNone} \cup {ArgSome(v) : v \in PossibleValues}
    /\ diffFlag \in BOOLEAN
    /\ jsonFile \in {ArgNone, ArgSome("out.json")}
    /\ filter = "unset"
    /\ tasks \in TaskSeqs
    /\ idx = 1
    /\ term = InitTerm
    /\ collected = <<>>
    /\ file = NoFile
    /\ pc = "start"
    /\ cause = "none"
    /\ ioFailed = FALSE

\* get_matches, term::stdout, the filter, the task iterator
ParseArgs ==
    /\ pc = "start"
    /\ filter' = FilterFromArgs(filterArg)
    /\ pc' = "tasks"
    /\ UNCHANGED <<filterArg, diffFlag, jsonFile, tasks, idx, term, collected,
                   file, cause, ioFailed>>

\* the iterator yields an element
HasNext == pc = "tasks" /\ idx <= Len(tasks)

\* LookupFails with the failed lookup dropped and the iteration continued
LookupFailsSkipped ==
    /\ pc = "tasks" /\ idx <= Len(tasks)
    /\ tasks[idx].err
    /\ idx' = idx + 1
    /\ UNCHANGED <<filterArg, diffFlag, jsonFile, filter, tasks, term, collected,
                   file, pc, cause, ioFailed>>

\* task.unwrap() on Err
LookupFails ==
    /\ HasNext
    /\ tasks[idx].err
    /\ pc' = "panicked"
    /\ cause' = "lookup"
    /\ UNCHANGED <<filterArg, diffFlag, jsonFile, filter, tasks, idx, term,
                   collected, file, ioFailed>>

\* the filter match returns None
SkipTask ==
    /\ HasNext
    /\ ~tasks[idx].err
    /\ FilterExcludes(filter, tasks[idx])
    /\ idx' = idx + 1
    /\ UNCHANGED <<filterArg, diffFlag, jsonFile, filter, tasks, term, collected,
                   file, pc, cause, ioFailed>>

\* print_task returns Ok(()): the task is printed and, with --json, collected
PrintTaskOk ==
    /\ HasNext
    /\ ~tasks[idx].err
    /\ ~FilterExcludes(filter, tasks[idx])
    /\ \E ops \in print_task(tasks[idx], diffFlag) :
           term' = RunOps(term, ops, idx)
    /\ collected' = Collect(collected, tasks[idx], jsonFile)
    /\ idx' = idx + 1
    /\ UNCHANGED <<filterArg, diffFlag, jsonFile, filter, tasks, file, pc, cause,
                   ioFailed>>

\* PrintTaskFails with the Err of print_task ignored instead of unwrapped
PrintTaskFailsIgnored ==
    /\ pc = "tasks" /\ idx <= Len(tasks)
    /\ ~tasks[idx].err
    /\ ~FilterExcludes(filter, tasks[idx])
    /\ \E ops \in print_task(tasks[idx], diffFlag) :
         \E k \in 0..(Len(ops) - 1) :
           term' = RunOps(term, Take(ops, k), idx)
    /\ ioFailed' = TRUE
    /\ collected' = Collect(collected, tasks[idx], jsonFile)
    /\ idx' = idx + 1
    /\ UNCHANGED <<filterArg, diffFlag, jsonFile, filter, tasks, file, pc, cause>>

\* an operation of print_task fails after k have succeeded: `?` returns the
\* Err and unwrap() panics
PrintTaskFails ==
    /\ HasNext
    /\ ~tasks[idx].err
    /\ ~FilterExcludes(filter, tasks[idx])
    /\ \E ops \in print_task(tasks[idx], diffFlag) :
         \E k \in 0..(Len(ops) - 1) :
           term' = RunOps(term, Take(ops, k), idx)
    /\ ioFailed' = TRUE
    /\ pc' = "panicked"
    /\ cause' = "io"
    /\ UNCHANGED <<filterArg, diffFlag, jsonFile, filter, tasks, idx, collected,
                   file>>

\* the iterator is exhausted and collect() has returned
Exhausted == pc = "tasks" /\ idx > Len(tasks)

\* no --json: main returns
FinishNoExport ==
    /\ Exhausted
    /\ ~jsonFile.some
    /\ pc' = "done"
    /\ UNCHANGED <<filterArg, diffFlag, jsonFile, filter, tasks, idx, term,
                   collected, file, cause, ioFailed>>

\* File::create and write_all succeed
ExportOk ==
    /\ Exhausted
    /\ jsonFile.some
    /\ file' = [state |-> "written", content |-> collected]
    /\ pc' = "done"
    /\ UNCHANGED <<filterArg, diffFlag, jsonFile, filter, tasks, idx, term,
                   collected, cause, ioFailed>>

\* File::create(filename).unwrap() panics: nothing is created
ExportCreateFails ==
    /\ Exhausted
    /\ jsonFile.some
    /\ pc' = "panicked"
    /\ cause' = "export"
    /\ UNCHANGED <<filterArg, diffFlag, jsonFile, filter, tasks, idx, term,
                   collected, file, ioFailed>>

\* write_all(..).unwrap() panics: the file exists and holds part of the document
ExportWriteFails ==
    /\ Exhausted
    /\ jsonFile.some
    /\ \E k \in 0..Len(collected) :
           file' = [state |-> "truncated", content |-> Take(collected, k)]
    /\ pc' = "panicked"
    /\ cause' = "export"
    /\ UNCHANGED <<filterArg, diffFlag, jsonFile, filter, tasks, idx, term,
                   collected, ioFailed>>

\* one step of the closure over the tasks, or the end of main
TaskNext ==
    \/ LookupFails
    \/ SkipTask
    \/ PrintTaskOk
    \/ PrintTaskFails
    \/ FinishNoExport
    \/ ExportOk
    \/ ExportCreateFails
    \/ ExportWriteFails

Next == ParseArgs \/ TaskNext

Spec == Init /\ [][Next]_vars

\* The closure and the export under every Filter value.  (From the command
\* line only All and Unimplemented are ever in effect, see FilterFromArgs.)
RunInit ==
    /\ filterArg = ArgNone
    /\ diffFlag \in BOOLEAN
    /\ jsonFile \in {ArgNone, ArgSome("out.json")}
    /\ filter \in Variants
    /\ tasks \in TaskSeqs
    /\ idx = 1
    /\ term = InitTerm
    /\ collected = <<>>
    /\ file = NoFile
    /\ pc = "tasks"
    /\ cause = "none"
    /\ ioFailed = FALSE

RunSpec == RunInit /\ [][TaskNext]_vars

-----------------------------------------------------------------------------
(* print_diff on its own: every pair of texts up to MaxStrLen characters.  *)
(* tasks holds the one task whose remote_code is s1 and local_code is s2.  *)

DiffTask(s1, s2) ==
    [err |-> FALSE, title |-> TitleOf(1), url |-> UrlOf(1), local_code |-> Some(s2),
     remote_code |-> Some(s1), local_path |-> Some(PathOf(1))]

DiffInit ==
    /\ filterArg = ArgNone
    /\ diffFlag = TRUE
    /\ jsonFile = ArgNone
    /\ filter = FilterDefault
    /\ tasks \in {<<DiffTask(s1, s2)>> : s1 \in Texts, s2 \in Texts}
    /\ idx = 1
    /\ term = InitTerm
    /\ collected = <<>>
    /\ file = NoFile
    /\ pc = "print_diff"
    /\ cause = "none"
    /\ ioFailed = FALSE

\* print_diff(t, s1, s2) returns Ok(())
PrintDiffOk ==
    /\ pc = "print_diff"
    /\ \E d \in Changesets(DiffArgs(tasks[1])[1], DiffArgs(tasks[1])[2]) :
           term' = RunOps(term, print_diff(d), 1)
    /\ pc' = "diff_ok"
    /\ UNCHANGED <<filterArg, diffFlag, jsonFile, filter, tasks, idx, collected,
                   file, cause, ioFailed>>

\* an operation of print_diff fails after k have succeeded
PrintDiffFails ==
    /\ pc = "print_diff"
    /\ \E d \in Changesets(DiffArgs(tasks[1])[1], DiffArgs(tasks[1])[2]) :
         \E k \in 0..(Len(print_diff(d)) - 1) :
           term' = RunOps(term, Take(print_diff(d), k), 1)
    /\ pc' = "diff_err"
    /\ ioFailed' = TRUE
    /\ UNCHANGED <<filterArg, diffFlag, jsonFile, filter, tasks, idx, collected,
                   file, cause>>

DiffNext == PrintDiffOk \/ PrintDiffFails

DiffSpec == DiffInit /\ [][DiffNext]_vars

\* main and print_diff on its own, side by side
FullInit == Init \/ DiffInit

FullNext == Next \/ DiffNext

FullSpec == FullInit /\ [][FullNext]_vars

-----------------------------------------------------------------------------
(* What the claims speak of.                                               *)

Out == term.out

Present(o) == o.some

\* positions of Out written while task i was processed
ChunksOf(i) == {k \in 1..Len(Out) : Out[k].task = i}

Printed(i) == ChunksOf(i) # {}

DiffTags == {"Same", "Add", "Rem"}

DiffChunksOf(i) == {k \in ChunksOf(i) : Out[k].tag \in DiffTags}

\* titles are unique, so a record belongs to the task whose title it holds
Exported(i) == \E k \in 1..Len(collected) : collected[k].title.value = tasks[i].title

\* the lines of a text, the empty text having none
LinesOf(s) == IF s = <<>> THEN <<>> ELSE Split(s)

Range(f) == {f[k] : k \in DOMAIN f}

\* the lines a write ends: its text cut at each newline
WrittenLines(text) == Split(Take(text, Len(text) - 1))

PrefixOf(tag) ==
    CASE tag = "Same" -> " "
      [] tag = "Add"  -> "+"
      [] tag = "Rem"  -> "-"

StartsWith(line, c) == line # <<>> /\ line[1] = c

\* the Filter the documentation of --filter promises for an option value
PromisedFilter(arg) ==
    CASE ~arg.some                 -> "All"
      [] arg.val = "all"           -> "All"
      [] arg.val = "local"         -> "LocalOnly"
      [] arg.val = "remote"        -> "RemoteOnly"
      [] arg.val = "unimplemented" -> "Unimplemented"

\* C1: once the arguments are read, the filter in effect is the one the
\* --filter value names (all: All, local: LocalOnly, remote: RemoteOnly,
\* unimplemented: Unimplemented, omitted: All); so it is All only for 'all'
\* and for an omitted option.
C1_FilterSelected ==
    pc # "start" =>
        /\ filter = PromisedFilter(filterArg)
        /\ (filterArg.some /\ filterArg.val # "all" => filter # "All")

\* the retention rule of the specification, case by case
Retained(f, task) ==
    \/ f = "All"
    \/ f = "LocalOnly" /\ Present(task.local_code) /\ ~Present(task.remote_code)
    \/ f = "RemoteOnly" /\ ~Present(task.local_code) /\ Present(task.remote_code)
    \/ f = "Unimplemented" /\ ~Present(task.local_code) /\ ~Present(task.remote_code)

\* C2: under every Filter value, a task the closure has gone past is printed
\* (and, with --json, collected) iff the filter is All, or LocalOnly and only
\* local_code is present, or RemoteOnly and only remote_code is present, or
\* Unimplemented and both are absent; a task that is not retained has no
\* terminal output and no export record.
C2_FilterRetention ==
    \A i \in 1..Len(tasks) :
        /\ (Printed(i) \/ Exported(i)) => ~tasks[i].err /\ Retained(filter, tasks[i])
        /\ i < idx =>
             /\ Printed(i) <=> Retained(filter, tasks[i])
             /\ Exported(i) <=> (jsonFile.some /\ Retained(filter, tasks[i]))

C2_Witness ==
    /\ Len(tasks) = 2 /\ idx = 3
    /\ filter = "LocalOnly"
    /\ jsonFile.some
    /\ Printed(1) /\ Exported(1)
    /\ Present(tasks[2].local_code) /\ Present(tasks[2].remote_code)
    /\ ~Printed(2) /\ ~Exported(2)

IsRetainedAt(i) == ~tasks[i].err /\ Retained(filter, tasks[i])

\* positions of the retained tasks, in iteration order
RetainedIdx == SelectSeq([i \in 1..Len(tasks) |-> i], IsRetainedAt)

\* a field of the export: the text itself, or null when the field is absent
FieldIs(j, o) ==
    IF o.some THEN j.kind = "string" /\ j.value = o.val ELSE j.kind = "null"

\* C3: with --json, when main has returned, the exported collection holds
\* exactly one record per retained task, in iteration order, with title, url,
\* local_code, remote_code and path copied from the task and an absent field
\* kept as null (an empty text stays an empty string); without --json nothing
\* is collected and no file is written.
C3_Export ==
    /\ (pc = "done" /\ jsonFile.some) =>
         /\ file.state = "written"
         /\ Len(file.content) = Len(RetainedIdx)
         /\ \A k \in 1..Len(RetainedIdx) :
              LET rec == file.content[k]
                  task == tasks[RetainedIdx[k]]
              IN  /\ DOMAIN rec = {"title", "url", "local_code", "remote_code", "path"}
                  /\ FieldIs(rec.title, Some(task.title))
                  /\ FieldIs(rec.url, Some(task.url.serialization))
                  /\ FieldIs(rec.local_code, task.local_code)
                  /\ FieldIs(rec.remote_code, task.remote_code)
                  /\ FieldIs(rec.path, task.local_path)
    /\ ~jsonFile.some => collected = <<>> /\ file.state = "absent"

C3_Witness ==
    /\ pc = "done" /\ jsonFile.some
    /\ filter = "Unimplemented"
    /\ Len(tasks) = 2
    /\ Present(tasks[1].remote_code)
    /\ Len(file.content) = 1
    /\ file.content[1].title.value = tasks[2].title
    /\ file.content[1].local_code.kind = "null"

\* C4: when print_diff returns, every line it wrote starts with the prefix
\* of the segment it belongs to (space for Same, '+' for Added, '-' for
\* Removed), there is one written line per line of the two texts' segments,
\* and for identical texts the output is one space-prefixed line per line.
C4_EveryLinePrefixed ==
    pc = "diff_ok" =>
        /\ \A k \in 1..Len(Out) :
             \A line \in Range(WrittenLines(Out[k].text)) :
                StartsWith(line, PrefixOf(Out[k].tag))
        /\ LET s1 == DiffArgs(tasks[1])[1]
               s2 == DiffArgs(tasks[1])[2]
           IN  s1 = s2 =>
                 /\ Len(Out) = Len(LinesOf(s1))
                 /\ \A k \in 1..Len(Out) : Out[k].text = <<" ">> \o LinesOf(s1)[k] \o <<NL>>

\* everything written, as one text
RECURSIVE Concat(_)
Concat(chunks) == IF chunks = <<>> THEN <<>> ELSE Head(chunks).text \o Concat(Tail(chunks))

\* the lines on the terminal
OutLines == IF Out = <<>> THEN <<>> ELSE WrittenLines(Concat(Out))

HasSameOrAdd(line) == StartsWith(line, " ") \/ StartsWith(line, "+")

HasSameOrRem(line) == StartsWith(line, " ") \/ StartsWith(line, "-")

Strip(lines) == [k \in 1..Len(lines) |-> Tail(lines[k])]

\* C5: when print_diff(a, b) returns, the output lines with a space or '+'
\* prefix, in order and without the prefix, are the lines of b, and those
\* with a space or '-' prefix are the lines of a.
C5_RoundTrip ==
    pc = "diff_ok" =>
        /\ Strip(SelectSeq(OutLines, HasSameOrAdd)) = LinesOf(DiffArgs(tasks[1])[2])
        /\ Strip(SelectSeq(OutLines, HasSameOrRem)) = LinesOf(DiffArgs(tasks[1])[1])

\* the line a '+' or '-' write holds
LineOfChunk(c) == SubSeq(c.text, 2, Len(c.text) - 1)

BlockRank(tag) ==
    CASE tag = "title"   -> 1
      [] tag \in DiffTags -> 3
      [] OTHER           -> 2

\* C6: a printed task has its diff rendered iff --diff is set and both codes
\* are present; in it remote_code is the 'before' and local_code the 'after'
\* text ('+' lines are lines of local, '-' lines are lines of remote, a line
\* only in local comes out as '+', a line only in remote as '-'); and the
\* diff comes after the task's status lines and before the next task's title.
C6_DiffWhenBothPresent ==
    /\ \A i \in 1..Len(tasks) :
         LET task == tasks[i]
             both == diffFlag /\ Present(task.local_code) /\ Present(task.remote_code)
         IN  /\ (DiffChunksOf(i) # {} \/ i \in term.flushed) => both
             /\ (i < idx /\ Printed(i)) => (i \in term.flushed <=> both)
             /\ \A k \in DiffChunksOf(i) :
                  /\ Out[k].tag = "Add" =>
                       /\ StartsWith(Out[k].text, "+")
                       /\ LineOfChunk(Out[k]) \in Range(LinesOf(task.local_code.val))
                  /\ Out[k].tag = "Rem" =>
                       /\ StartsWith(Out[k].text, "-")
                       /\ LineOfChunk(Out[k]) \in Range(LinesOf(task.remote_code.val))
             /\ (i \in term.flushed) =>
                  /\ \A line \in Range(LinesOf(task.local_code.val))
                                   \ Range(LinesOf(task.remote_code.val)) :
                        \E k \in DiffChunksOf(i) :
                            Out[k].tag = "Add" /\ LineOfChunk(Out[k]) = line
                  /\ \A line \in Range(LinesOf(task.remote_code.val))
                                   \ Range(LinesOf(task.local_code.val)) :
                        \E k \in DiffChunksOf(i) :
                            Out[k].tag = "Rem" /\ LineOfChunk(Out[k]) = line
    /\ \A p \in 1..(Len(Out) - 1) :
         /\ Out[p].task <= Out[p + 1].task
         /\ Out[p].task = Out[p + 1].task =>
                BlockRank(Out[p].tag) <= BlockRank(Out[p + 1].tag)

C6_Witness ==
    /\ diffFlag /\ Len(tasks) = 2 /\ idx = 3
    /\ 1 \in term.flushed /\ 2 \notin term.flushed /\ Printed(2)
    /\ \E k \in DiffChunksOf(1) : Out[k].tag = "Add"
    /\ \E k \in DiffChunksOf(1) : Out[k].tag = "Same"

\* C7: once an operation on the terminal has failed the program has
\* panicked on that failure: nothing of a later task is on the terminal, the
\* current task and the later ones are not collected, the export file does
\* not exist, and no step follows.
C7_SinkFailureAborts ==
    [][/\ ioFailed' =>
            /\ pc' = "panicked" /\ cause' = "io"
            /\ file'.state = "absent"
            /\ \A k \in 1..Len(term'.out) : term'.out[k].task <= idx'
            /\ \A i \in idx'..Len(tasks') : ~Exported(i)'
       /\ ioFailed => UNCHANGED vars]_vars

C7_Witness ==
    /\ ioFailed /\ jsonFile.some
    /\ Len(tasks) = 2 /\ idx = 1
    /\ ~tasks[2].err
    /\ Printed(1)

\* C8 as stated: when the lookup of the task at position i fails the program
\* panics and no task after i is printed or collected; and on every run that
\* panics, whatever the reason, the export file is neither created nor
\* written.
C8_NoFileOnAnyAbort ==
    /\ cause = "lookup" =>
         /\ pc = "panicked"
         /\ \A i \in idx..Len(tasks) : ~Printed(i) /\ ~Exported(i)
    /\ pc = "panicked" => file.state = "absent"

\* C8, amended: when the lookup of the task at position i fails the program
\* panics: no task after i is printed or collected and the export file is not
\* created; the file is created or written only once every task has been
\* looked up and processed without failure (so not on a run that a lookup or
\* a terminal failure ends), after which the program ends; it holds the whole
\* document only when main returns.
C8_LookupFailureAborts ==
    /\ cause = "lookup" =>
         /\ pc = "panicked"
         /\ tasks[idx].err
         /\ \A i \in idx..Len(tasks) : ~Printed(i) /\ ~Exported(i)
         /\ file.state = "absent"
    /\ file.state # "absent" =>
         /\ jsonFile.some
         /\ idx > Len(tasks)
         /\ \A i \in 1..Len(tasks) : ~tasks[i].err
         /\ ~ioFailed
         /\ pc \in {"done", "panicked"}
    /\ file.state = "written" => pc = "done"

C8_Witness ==
    /\ cause = "lookup" /\ jsonFile.some
    /\ Len(tasks) = 2 /\ idx = 1
    /\ ~tasks[2].err

\* the first position of Out written for task n
FirstChunk(n) == CHOOSE k \in 1..Len(Out) : Out[k].task = n /\ \A j \in 1..(k - 1) : Out[j].task # n

\* what was written i-th for task n
ChunkAt(n, i) == Out[FirstChunk(n) + i - 1]

Glyph(o) ==
    IF Present(o) THEN [text |-> <<"CHECK">>, fg |-> "green"]
    ELSE [text |-> <<"CROSS">>, fg |-> "red"]

\* C9: for a printed task the terminal holds, in this order, the title (in
\* bold), "Local:" and the glyph of local_code, "Remote:" and the glyph of
\* remote_code, each glyph the green check iff the code is present (an empty
\* text is present) and the red cross otherwise; the blocks are in iteration
\* order.
C9_StatusBlock ==
    /\ \A n \in 1..Len(tasks) :
         (n < idx /\ Printed(n)) =>
            LET first == FirstChunk(n)
                At(i) == Out[first + i - 1]
            IN  /\ \A i \in 1..6 : first + i - 1 <= Len(Out) /\ At(i).task = n
                /\ At(1).text = tasks[n].title \o <<NL>>
                /\ At(1).bold
                /\ At(2).text = <<"Local:">>
                /\ At(3).text = Glyph(tasks[n].local_code).text
                /\ At(3).fg = Glyph(tasks[n].local_code).fg
                /\ At(4).text = <<"Remote:">>
                /\ At(5).text = Glyph(tasks[n].remote_code).text
                /\ At(5).fg = Glyph(tasks[n].remote_code).fg
                /\ At(6).text = <<NL>>
    /\ \A p \in 1..(Len(Out) - 1) : Out[p].task <= Out[p + 1].task

C9_Witness ==
    /\ Len(tasks) = 2 /\ idx = 3
    /\ Printed(1) /\ Printed(2)
    /\ tasks[1].local_code = Some(<<>>) /\ ~Present(tasks[1].remote_code)
    /\ ChunkAt(1, 3).text = <<"CHECK">>
    /\ ChunkAt(1, 5).text = <<"CROSS">>

\* print_diff or print_task has returned Ok(())
ReturnedOk == pc \in {"diff_ok", "tasks", "done"}

\* C10: every '+' line is written with the foreground green, every '-' line
\* with the foreground red, every Same line with no colour and no attribute;
\* and when print_diff or print_task has returned successfully the terminal
\* is reset.
C10_StyleMatchesTag ==
    /\ \A k \in 1..Len(Out) :
         /\ Out[k].tag = "Add" => Out[k].fg = "green"
         /\ Out[k].tag = "Rem" => Out[k].fg = "red"
         /\ Out[k].tag = "Same" => Out[k].fg = "none" /\ ~Out[k].bold
    /\ ReturnedOk => term.fg = "none" /\ ~term.bold

C10_Witness ==
    /\ pc = "diff_ok"
    /\ Len(Out) = 3
    /\ Out[1].tag = "Rem" /\ Out[2].tag = "Add" /\ Out[3].tag = "Same"

====
